---- MODULE Spec2Model ----
(***************************************************************************)
(* A model of makovalab-psu/common: pair_align.py (the Aligner wrapper and *)
(* the substitution-matrix fallback loader) and tests/run.py (the test     *)
(* discovery and execution harness).                                       *)
(*                                                                         *)
(* Five state machines share the module's variables; each specification    *)
(* drives one of them and leaves the others switched off:                  *)
(*   SpecLoader   substitution_matrix_loader reading a file line by line   *)
(*   SpecAligner  Aligner.__init__                                         *)
(*   SpecDiscover the module-level execution of tests/run.py up to the     *)
(*                suite dictionaries main() builds                         *)
(*   SpecHarness  main() of tests/run.py running the tests                 *)
(*   SpecCommand  run_command / run_command_and_capture called directly    *)
(***************************************************************************)
EXTENDS Integers, Sequences, FiniteSets, TLC

VARIABLES
  \* substitution_matrix_loader (pair_align.py:134-153)
  ld_pc,        \* "off" | "loop" | "returned" | "raised"
  matrix_file,  \* the lines the file iterator has yielded so far (stripped, split)
  x_bases,      \* None, or Some(list of header symbols)
  matrix,       \* the dict being built: (x_base, y_base) -> score
  ld_error,     \* None, or Some(the exception raised)
  \* Aligner.__init__ (pair_align.py:81-106)
  substitution_matrices,  \* the module global: "None" (import failed) or "native"
  al_pc,        \* "off" | "idle" | "select" | "configure" | "constructed" | "raised"
  al_args,      \* the constructor's arguments
  al_matrix,    \* the local variable `matrix`: None or Some(matrix)
  _aligner,     \* self._aligner: None or Some(the engine's settings)
  al_reads,     \* the matrix files read so far: [loader, path]
  al_error,     \* None, or Some(the exception raised)
  \* tests/run.py: the module's top level and the suites main() builds (lines 40-49, 74-236)
  dc_pc,        \* "off" | "module" | "line41" | "line45" | "discovered"
  module_src,   \* the module-level statements executed after line 73, in order
  globals,      \* the module's namespace: name -> "function" | "other"
  snapshots,    \* marker name -> the copy of globals() it holds
  meta_tests, active_tests, inactive_tests, simple_tests, all_tests,  \* main()'s dicts
  \* tests/run.py: run_command, run_command_and_capture, run_command_and_catch (271-300)
  cm_pc,        \* "off" | "idle" | "running" | "returned" | "raised"
  cm_call,      \* None, or Some([fn, onerror]): the call being made
  cm_proc,      \* None, or Some(what subprocess.run did)
  cm_ret,       \* None, or Some([exc, value, logged]): how the call ended
  \* tests/run.py: main() from line 51 on, and the tests it runs
  hs_pc,        \* "off" | "main" | "loop" | "group" | "test" | "returned" | "exited" | "raised"
  tests,        \* args.tests: the names on the command line
  arg_i,        \* how many of args.tests the loop on line 70 has taken
  pending,      \* the test names the running call on line 72 has still to run
  cur_test,     \* None, or Some(the test function running)
  sub_i,        \* the subtests of cur_test that are over
  sub,          \* None, or Some(the current or last subtest)
  called,       \* the test functions entered so far, in order
  ran,          \* the names main() has called test_fxn for (line 72), in order
  listing,      \* None, or Some(what lines 52-60 printed)
  hs_log,       \* what logging.critical was given
  hs_end        \* None, or Some(how main() ended)

ldVars == <<ld_pc, matrix_file, x_bases, matrix, ld_error>>
alVars == <<substitution_matrices, al_pc, al_args, al_matrix, _aligner, al_reads, al_error>>

dcVars == <<dc_pc, module_src, globals, snapshots,
            meta_tests, active_tests, inactive_tests, simple_tests, all_tests>>

cmVars == <<cm_pc, cm_call, cm_proc, cm_ret>>

hsVars == <<hs_pc, tests, arg_i, pending, cur_test, sub_i, sub, called, ran, listing,
            hs_log, hs_end>>

vars == <<ldVars, alVars, dcVars, cmVars, hsVars>>

(***************************************************************************)
(* Python's None and a value that is present.                              *)
(***************************************************************************)
None == <<>>
Some(v) == <<v>>
Get(opt) == opt[1]

SeqsUpTo(S, n) == UNION {[1..k -> S] : k \in 0..n}

Min(a, b) == IF a < b THEN a ELSE b

Range(s) == {s[i] : i \in 1..Len(s)}

(***************************************************************************)
(* Bounds of the loader's inputs.                                          *)
(***************************************************************************)
MaxLines == 3
MaxToks == 3

(***************************************************************************)
(* The matrix file.  A line is modelled after line_raw.strip() as the list *)
(* line.split() of its whitespace-separated tokens.  A token is a string:  *)
(* "A", "C" are symbols, "1", "2" are numbers, "x" is a string that is no  *)
(* number, "#" is a token whose first character is '#'.  The lines are a   *)
(* blank line, lists of symbols, a symbol followed by score strings, and a *)
(* comment.                                                                *)
(***************************************************************************)
Symbols == {"A", "C"}
ScoreToks == {"1", "2", "x"}
HashToks == {"#"}

SymbolLines == SeqsUpTo(Symbols, MaxToks)
ScoreLines == {<<y>> \o strs : y \in Symbols, strs \in SeqsUpTo(ScoreToks, MaxToks - 1)}
HashLines == {<<"#", "A">>}
Lines == SymbolLines \cup ScoreLines \cup HashLines

\* str.startswith('#') on a token
StartsWithHash(tok) == tok \in HashToks

\* pair_align.py:140  line.startswith('#') on the stripped line
IsComment(line) == Len(line) > 0 /\ StartsWithHash(line[1])

\* float(s): the strings Python parses, and the number each gives
IsFloatStr(s) == s \in {"1", "2", "1.0"}
Float(s) == CASE s = "1" -> 1
              [] s = "1.0" -> 1
              [] s = "2" -> 2

ValueError(msg) == [type |-> "ValueError", msg |-> msg]

\* dict item assignment  m[k] = v
Put(m, k, v) == [kk \in (DOMAIN m) \cup {k} |-> IF kk = k THEN v ELSE m[kk]]

EmptyDict == [k \in {} |-> 0]

\* pair_align.py:151-152  for x_base, score in zip(x_bases, scores): matrix[(x_base,y_base)] = score
RECURSIVE StoreScores_Swapped(_, _, _, _, _)
RECURSIVE StoreScores_DropLast(_, _, _, _, _)
RECURSIVE StoreScores(_, _, _, _, _)
StoreScores_DropLast(m, xs, y_base, scores, i) ==
  IF i >= Min(Len(xs), Len(scores)) THEN m
  ELSE StoreScores_DropLast(Put(m, <<xs[i], y_base>>, scores[i]), xs, y_base, scores, i + 1)
StoreScores_Swapped(m, xs, y_base, scores, i) ==
  IF i > Min(Len(xs), Len(scores)) THEN m
  ELSE StoreScores_Swapped(Put(m, <<y_base, xs[i]>>, scores[i]), xs, y_base, scores, i + 1)
StoreScores(m, xs, y_base, scores, i) ==
  IF i > Min(Len(xs), Len(scores)) THEN m
  ELSE StoreScores(Put(m, <<xs[i], y_base>>, scores[i]), xs, y_base, scores, i + 1)

\* pair_align.py:146  scores = [float(s) for s in score_strs]: the first string
\* float() rejects, or 0 when it accepts them all
FirstBadFloat(strs) ==
  IF \A i \in 1..Len(strs) : IsFloatStr(strs[i]) THEN 0
  ELSE CHOOSE i \in 1..Len(strs) :
         /\ ~IsFloatStr(strs[i])
         /\ \A j \in 1..(i - 1) : IsFloatStr(strs[j])

(***************************************************************************)
(* One iteration of the for loop (pair_align.py:138-152) on the loader's   *)
(* local state st = [x_bases, matrix, error], for the line numbered        *)
(* line_num.  error is None unless the iteration raises.                   *)
(***************************************************************************)
LoopBody_CommentsOnlyBeforeHeader(st, line, line_num) ==
  IF st.x_bases = None /\ IsComment(line) THEN st
  ELSE IF st.x_bases = None THEN [st EXCEPT !.x_bases = Some(line)]
  ELSE IF Len(line) = 0
    THEN [st EXCEPT !.error = Some(ValueError(<<"unpack">>))]
  ELSE LET y_base == Head(line)
           score_strs == Tail(line)
           bad == FirstBadFloat(score_strs)
       IN IF bad # 0
            THEN [st EXCEPT !.error = Some(ValueError(<<"float", score_strs[bad]>>))]
          ELSE LET scores == [i \in 1..Len(score_strs) |-> Float(score_strs[i])]
               IN IF Len(scores) # Len(Get(st.x_bases))
                    THEN [st EXCEPT !.error = Some(ValueError(
                            <<"count", line_num, Len(scores), Len(Get(st.x_bases))>>))]
                  ELSE [st EXCEPT !.matrix =
                          StoreScores(st.matrix, Get(st.x_bases), y_base, scores, 1)]
LoopBody(st, line, line_num) ==
  IF IsComment(line) THEN st                                      \* 140-141
  ELSE IF st.x_bases = None THEN [st EXCEPT !.x_bases = Some(line)]  \* 142-144
  ELSE IF Len(line) = 0                                           \* 145: y_base, *score_strs = []
    THEN [st EXCEPT !.error = Some(ValueError(<<"unpack">>))]
  ELSE LET y_base == Head(line)
           score_strs == Tail(line)
           bad == FirstBadFloat(score_strs)
       IN IF bad # 0                                              \* 146
            THEN [st EXCEPT !.error = Some(ValueError(<<"float", score_strs[bad]>>))]
          ELSE LET scores == [i \in 1..Len(score_strs) |-> Float(score_strs[i])]
               IN IF Len(scores) # Len(Get(st.x_bases))           \* 147-150
                    THEN [st EXCEPT !.error = Some(ValueError(
                            <<"count", line_num, Len(scores), Len(Get(st.x_bases))>>))]
                  ELSE [st EXCEPT !.matrix =                      \* 151-152
                          StoreScores(st.matrix, Get(st.x_bases), y_base, scores, 1)]

\* pair_align.py:135-136
LoaderStart == [x_bases |-> None, matrix |-> EmptyDict, error |-> None]

(***************************************************************************)
(* The whole function on a whole file: what it returns or raises.          *)
(***************************************************************************)
RECURSIVE LoaderLoop(_, _, _)
LoaderLoop(st, file, i) ==
  IF i > Len(file) \/ st.error # None THEN st
  ELSE LoaderLoop(LoopBody(st, file[i], i), file, i + 1)

substitution_matrix_loader(file) == LoaderLoop(LoaderStart, file, 1)

AlignerOff ==
  /\ substitution_matrices = "None"
  /\ al_pc = "off"
  /\ al_args = None
  /\ al_matrix = None
  /\ _aligner = None
  /\ al_reads = <<>>
  /\ al_error = None

DiscoverOff ==
  /\ dc_pc = "off"
  /\ module_src = <<>>
  /\ globals = EmptyDict
  /\ snapshots = EmptyDict
  /\ meta_tests = EmptyDict
  /\ active_tests = EmptyDict
  /\ inactive_tests = EmptyDict
  /\ simple_tests = EmptyDict
  /\ all_tests = EmptyDict

CommandOff ==
  /\ cm_pc = "off"
  /\ cm_call = None
  /\ cm_proc = None
  /\ cm_ret = None

HarnessOff ==
  /\ hs_pc = "off"
  /\ tests = <<>>
  /\ arg_i = 0
  /\ pending = <<>>
  /\ cur_test = None
  /\ sub_i = 0
  /\ sub = None
  /\ called = <<>>
  /\ ran = <<>>
  /\ listing = None
  /\ hs_log = <<>>
  /\ hs_end = None

(***************************************************************************)
(* The loader as a state machine.  The file is revealed as the iterator    *)
(* yields it: lines the loop never reaches cannot influence it.            *)
(***************************************************************************)
LoaderOff ==
  /\ ld_pc = "off"
  /\ matrix_file = <<>>
  /\ x_bases = None
  /\ matrix = EmptyDict
  /\ ld_error = None

InitLoader ==
  /\ HarnessOff
  /\ AlignerOff
  /\ DiscoverOff
  /\ CommandOff
  /\ ld_pc = "loop"
  /\ matrix_file = <<>>
  /\ x_bases = LoaderStart.x_bases
  /\ matrix = LoaderStart.matrix
  /\ ld_error = LoaderStart.error

LoaderState == [x_bases |-> x_bases, matrix |-> matrix, error |-> ld_error]

\* the iterator has another line to yield
CanIterate == ld_pc = "loop" /\ Len(matrix_file) < MaxLines

\* the iterator yields `line`; the loop body runs on it
Iterate(line) ==
  LET st == LoopBody(LoaderState, line, Len(matrix_file) + 1)
  IN /\ matrix_file' = Append(matrix_file, line)
     /\ x_bases' = st.x_bases
     /\ matrix' = st.matrix
     /\ ld_error' = st.error
     /\ ld_pc' = IF st.error # None THEN "raised" ELSE "loop"
     /\ UNCHANGED <<alVars, dcVars, cmVars, hsVars>>

SkipComment ==
  /\ CanIterate
  /\ \E line \in Lines : IsComment(line) /\ Iterate(line)

ReadHeader ==
  /\ CanIterate /\ x_bases = None
  /\ \E line \in Lines : ~IsComment(line) /\ Iterate(line)

ReadRow ==
  /\ CanIterate /\ x_bases # None
  /\ \E line \in Lines : ~IsComment(line) /\ Iterate(line) /\ ld_error' = None

RaiseOnRow ==
  /\ CanIterate /\ x_bases # None
  /\ \E line \in Lines : ~IsComment(line) /\ Iterate(line) /\ ld_error' # None

\* pair_align.py:153: the iterator is exhausted
Return ==
  /\ ld_pc = "loop"
  /\ ld_pc' = "returned"
  /\ UNCHANGED <<matrix_file, x_bases, matrix, ld_error>>
  /\ UNCHANGED <<alVars, dcVars, cmVars, hsVars>>

NextLoader == SkipComment \/ ReadHeader \/ ReadRow \/ RaiseOnRow \/ Return

SpecLoader == InitLoader /\ [][NextLoader]_vars

(***************************************************************************)
(* The matrix text format as the specification words it, read off the file *)
(* alone: comment lines start with '#', the header is the first            *)
(* non-comment line, every later non-comment line is a row.                *)
(***************************************************************************)
FmtIsComment(line) == Len(line) > 0 /\ line[1] = "#"
FmtNonComment(file) == SelectSeq(file, LAMBDA l : ~FmtIsComment(l))
FmtHasHeader(file) == Len(FmtNonComment(file)) > 0
FmtHeader(file) == FmtNonComment(file)[1]
FmtRows(file) == Tail(FmtNonComment(file))
\* the number of scores a row carries: its tokens after the row symbol
FmtScoreCount(row) == IF Len(row) = 0 THEN 0 ELSE Len(row) - 1
\* a row symbol followed by exactly n numbers
FmtRowCarries(row, n) ==
  /\ Len(row) = n + 1
  /\ \A i \in 2..Len(row) : IsFloatStr(row[i])
FmtRowsWellFormed(file) ==
  /\ FmtHasHeader(file)
  /\ \A j \in 1..Len(FmtRows(file)) : FmtRowCarries(FmtRows(file)[j], Len(FmtHeader(file)))
FmtRowSymbols(file) == {FmtRows(file)[j][1] : j \in 1..Len(FmtRows(file))}
FmtDistinct(s) == \A i, j \in 1..Len(s) : s[i] = s[j] => i = j
\* the line number (from 1) of the j-th row of the file
FmtRowLineNum(file, j) ==
  CHOOSE n \in 1..Len(file) :
    /\ ~FmtIsComment(file[n])
    /\ Len(FmtNonComment(SubSeq(file, 1, n))) = j + 1

Terminated == ld_pc \in {"returned", "raised"}

(***************************************************************************)
(* C2 as stated: every file whose rows each carry N scores loads to a      *)
(* mapping of exactly N x M entries (N header symbols, M rows).            *)
(***************************************************************************)
C2_EntriesAreNTimesM ==
  (Terminated /\ FmtRowsWellFormed(matrix_file)) =>
    /\ ld_pc = "returned"
    /\ Cardinality(DOMAIN matrix) = Len(FmtHeader(matrix_file)) * Len(FmtRows(matrix_file))

(***************************************************************************)
(* C2 amended: every file whose rows each carry N scores loads to a        *)
(* mapping with one entry per pair of a distinct header symbol and a       *)
(* distinct row symbol; that is exactly N x M entries when the header      *)
(* symbols are pairwise distinct and the row symbols are pairwise          *)
(* distinct.                                                               *)
(***************************************************************************)
C2_EntriesDistinctSymbols ==
  (Terminated /\ FmtRowsWellFormed(matrix_file)) =>
    LET hdr == FmtHeader(matrix_file)
        rows == FmtRows(matrix_file)
        rowsyms == [j \in 1..Len(rows) |-> rows[j][1]]
    IN /\ ld_pc = "returned"
       /\ Cardinality(DOMAIN matrix) =
            Cardinality(Range(hdr)) * Cardinality(FmtRowSymbols(matrix_file))
       /\ (FmtDistinct(hdr) /\ FmtDistinct(rowsyms)) =>
            Cardinality(DOMAIN matrix) = Len(hdr) * Len(rows)

\* a 2-column, 2-row file has been loaded to 4 entries
C2_Witness ==
  /\ ld_pc = "returned"
  /\ FmtRowsWellFormed(matrix_file)
  /\ Len(FmtHeader(matrix_file)) = 2
  /\ Len(FmtRows(matrix_file)) = 2
  /\ Cardinality(DOMAIN matrix) = 4

(***************************************************************************)
(* C3 as stated: whenever a non-comment row after the header has a number  *)
(* of scores different from the number of header symbols, the loader       *)
(* raises the ValueError that names the line number, the row's score count *)
(* and the header's column count, and returns no mapping.                  *)
(***************************************************************************)
C3_MismatchRaisesCountError ==
  (Terminated /\ FmtHasHeader(matrix_file)) =>
    LET hdr == FmtHeader(matrix_file)
        rows == FmtRows(matrix_file)
        bad == {j \in 1..Len(rows) : FmtScoreCount(rows[j]) # Len(hdr)}
    IN bad # {} =>
         LET j == CHOOSE j \in bad : \A k \in bad : j <= k
         IN /\ ld_pc = "raised"
            /\ ld_error = Some(ValueError(<<"count", FmtRowLineNum(matrix_file, j),
                                            FmtScoreCount(rows[j]), Len(hdr)>>))

(***************************************************************************)
(* C4 as stated: for a file whose rows each carry N scores, the keys are   *)
(* the pairs (header symbol, row symbol) and matrix[(x, y)] is the i-th    *)
(* score of the row with symbol y, for the i-th header symbol x.           *)
(***************************************************************************)
C4_KeyIsColumnRow ==
  (Terminated /\ FmtRowsWellFormed(matrix_file)) =>
    LET hdr == FmtHeader(matrix_file)
        rows == FmtRows(matrix_file)
    IN /\ ld_pc = "returned"
       /\ DOMAIN matrix = Range(hdr) \X FmtRowSymbols(matrix_file)
       /\ \A i \in 1..Len(hdr) : \A j \in 1..Len(rows) :
            matrix[<<hdr[i], rows[j][1]>>] = Float(rows[j][i + 1])

(***************************************************************************)
(* C4 amended: the keys are the pairs (header symbol, row symbol), header  *)
(* symbol first, and matrix[(x, y)] is the score at the position of the    *)
(* LAST occurrence of x in the header, in the LAST row whose symbol is y   *)
(* (the i-th score of the row when no symbol is repeated).                 *)
(***************************************************************************)
C4_KeyIsColumnRowLastWins ==
  (Terminated /\ FmtRowsWellFormed(matrix_file)) =>
    LET hdr == FmtHeader(matrix_file)
        rows == FmtRows(matrix_file)
    IN /\ ld_pc = "returned"
       /\ DOMAIN matrix = Range(hdr) \X FmtRowSymbols(matrix_file)
       /\ \A i \in 1..Len(hdr) : \A j \in 1..Len(rows) :
            (/\ \A i2 \in (i + 1)..Len(hdr) : hdr[i2] # hdr[i]
             /\ \A j2 \in (j + 1)..Len(rows) : rows[j2][1] # rows[j][1])
            => matrix[<<hdr[i], rows[j][1]>>] = Float(rows[j][i + 1])

\* a row with two different scores under two different header symbols has been stored
C4_Witness ==
  /\ ld_pc = "returned"
  /\ FmtRowsWellFormed(matrix_file)
  /\ \E x \in Symbols, y \in Symbols, z \in Symbols :
       /\ x # y /\ x # z
       /\ <<x, z>> \in DOMAIN matrix /\ <<y, z>> \in DOMAIN matrix
       /\ matrix[<<x, z>>] = 1 /\ matrix[<<y, z>>] = 2

(***************************************************************************)
(* C5: comment lines count for nothing wherever they stand.  At every      *)
(* point of the run the loader's header and mapping, and the error it      *)
(* raised (up to the line number it names), are those the loader computes  *)
(* on the same lines with the comment lines removed; and the header is the *)
(* first non-comment line.                                                 *)
(***************************************************************************)
ErrorUpToLineNum(err) ==
  IF err = None THEN None
  ELSE IF Get(err).msg[1] = "count"
    THEN Some(<<"count", Get(err).msg[3], Get(err).msg[4]>>)
  ELSE Some(Get(err).msg)

C5_CommentsIgnored ==
  LET clean == FmtNonComment(matrix_file)
      r == substitution_matrix_loader(clean)
  IN (ld_pc # "off") =>
       /\ x_bases = r.x_bases
       /\ matrix = r.matrix
       /\ ErrorUpToLineNum(ld_error) = ErrorUpToLineNum(r.error)
       /\ x_bases = IF Len(clean) = 0 THEN None ELSE Some(clean[1])

\* a comment before the header or between the header and a row, and the row stored
C5_Witness ==
  /\ ld_pc = "returned"
  /\ Len(matrix_file) = 3
  /\ FmtIsComment(matrix_file[2])
  /\ ~FmtIsComment(matrix_file[1]) /\ ~FmtIsComment(matrix_file[3])
  /\ DOMAIN matrix # {}

(***************************************************************************)
(* Aligner.__init__ (pair_align.py:82-106).                                *)
(*                                                                         *)
(* Gap penalties are Python floats; the model counts them in units of 0.5, *)
(* so that the default gap_extend 2.5 is 5.                                *)
(***************************************************************************)
MaxGap == 6
DEFAULT_GAP_OPEN == 0
DEFAULT_GAP_EXTEND == 5

\* the import at pair_align.py:14-17 leaves the module, or None
ImportResults == {"None", "native"}

Scopes == {"local", "global"}
\* matrix_file: None, the empty string, or a path (DEFAULT_MATRIX among them)
MatrixFiles == {None, Some(""), Some("sub-matrix.txt"), Some("other.txt")}
\* matrix: None, or a mapping given by the caller (the empty dict among them)
GivenMatrices == {None, Some(<<"given", "empty">>), Some(<<"given", "blosum">>)}

Args == [scope : Scopes, gap_open : 0..MaxGap, gap_extend : 0..MaxGap,
         matrix_file : MatrixFiles, matrix : GivenMatrices]

\* Python's truth value of matrix_file (pair_align.py:87)
Truthy(matrix_file_arg) == matrix_file_arg # None /\ Get(matrix_file_arg) # ""

\* pair_align.py:89  if substitution_matrices is None
UseShim_Inverted == substitution_matrices # "None"
UseShim == substitution_matrices = "None"

\* pair_align.py:104
OpenGapScore_NoExtend(gap_open, gap_extend) == -gap_open
OpenGapScore(gap_open, gap_extend) == -(gap_open + gap_extend)

\* pair_align.py:105
ExtendGapScore(gap_extend) == -gap_extend

InitAligner ==
  /\ HarnessOff
  /\ LoaderOff
  /\ DiscoverOff
  /\ CommandOff
  /\ substitution_matrices \in ImportResults
  /\ al_pc = "idle"
  /\ al_args = None
  /\ al_matrix = None
  /\ _aligner = None
  /\ al_reads = <<>>
  /\ al_error = None

\* Aligner(...) is called
Construct ==
  /\ al_pc = "idle"
  /\ \E args \in Args :
       /\ al_args' = Some(args)
       /\ al_matrix' = args.matrix
  /\ al_pc' = "select"
  /\ UNCHANGED <<substitution_matrices, _aligner, al_reads, al_error>>
  /\ UNCHANGED <<ldVars, dcVars, cmVars, hsVars>>

\* pair_align.py:86: a matrix was given
KeepGivenMatrix ==
  /\ al_pc = "select"
  /\ al_matrix # None
  /\ al_pc' = "configure"
  /\ UNCHANGED <<substitution_matrices, al_args, al_matrix, _aligner, al_reads, al_error>>
  /\ UNCHANGED <<ldVars, dcVars, cmVars, hsVars>>

\* pair_align.py:87-88
RaiseNoMatrix ==
  /\ al_pc = "select"
  /\ al_matrix = None
  /\ ~Truthy(Get(al_args).matrix_file)
  /\ al_error' = Some([type |-> "RuntimeError"])
  /\ al_pc' = "raised"
  /\ UNCHANGED <<substitution_matrices, al_args, al_matrix, _aligner, al_reads>>
  /\ UNCHANGED <<ldVars, dcVars, cmVars, hsVars>>

\* a loader reads the file: it returns a matrix, or raises (no such file, a bad row)
Load(loader) ==
  /\ al_reads' = Append(al_reads, [loader |-> loader, path |-> Get(Get(al_args).matrix_file)])
  /\ \/ /\ al_matrix' = Some(<<"loaded", loader, Get(Get(al_args).matrix_file)>>)
        /\ al_pc' = "configure"
        /\ UNCHANGED al_error
     \/ /\ al_error' = Some([type |-> "LoadError"])
        /\ al_pc' = "raised"
        /\ UNCHANGED al_matrix
  /\ UNCHANGED <<substitution_matrices, al_args, _aligner>>
  /\ UNCHANGED <<ldVars, dcVars, cmVars, hsVars>>

\* pair_align.py:89-90
LoadWithShim ==
  /\ al_pc = "select"
  /\ al_matrix = None
  /\ Truthy(Get(al_args).matrix_file)
  /\ UseShim
  /\ Load("substitution_matrix_loader")

\* pair_align.py:91-92
LoadNative ==
  /\ al_pc = "select"
  /\ al_matrix = None
  /\ Truthy(Get(al_args).matrix_file)
  /\ ~UseShim
  /\ Load("substitution_matrices.read")

\* pair_align.py:93-106
ConfigureEngine ==
  /\ al_pc = "configure"
  /\ _aligner' = Some([mode |-> Get(al_args).scope,
                       open_gap_score |-> OpenGapScore(Get(al_args).gap_open, Get(al_args).gap_extend),
                       extend_gap_score |-> ExtendGapScore(Get(al_args).gap_extend),
                       substitution_matrix |-> Get(al_matrix)])
  /\ al_pc' = "constructed"
  /\ UNCHANGED <<substitution_matrices, al_args, al_matrix, al_reads, al_error>>
  /\ UNCHANGED <<ldVars, dcVars, cmVars, hsVars>>

NextAligner ==
  \/ Construct
  \/ KeepGivenMatrix
  \/ RaiseNoMatrix
  \/ LoadWithShim
  \/ LoadNative
  \/ ConfigureEngine

SpecAligner == InitAligner /\ [][NextAligner]_vars

(***************************************************************************)
(* C1: for all non-negative gap_open and gap_extend, the configured engine *)
(* has open_gap_score = -(gap_open + gap_extend) and extend_gap_score =    *)
(* -gap_extend, hence open_gap_score <= extend_gap_score <= 0; the         *)
(* defaults 0 and 2.5 give -2.5 and -2.5.                                  *)
(***************************************************************************)
C1_GapScores ==
  (_aligner # None) =>
    LET a == Get(al_args)
        e == Get(_aligner)
    IN /\ e.open_gap_score = 0 - (a.gap_open + a.gap_extend)
       /\ e.extend_gap_score = 0 - a.gap_extend
       /\ e.open_gap_score <= e.extend_gap_score
       /\ e.extend_gap_score <= 0
       /\ (a.gap_open = DEFAULT_GAP_OPEN /\ a.gap_extend = DEFAULT_GAP_EXTEND) =>
            (e.open_gap_score = -5 /\ e.extend_gap_score = -5)

\* an engine configured with a gap-open penalty of 1.0 and the default gap_extend
C1_Witness ==
  /\ al_pc = "constructed"
  /\ Get(al_args).gap_open = 2
  /\ Get(al_args).gap_extend = DEFAULT_GAP_EXTEND
  /\ Get(_aligner).open_gap_score = -7
  /\ Get(_aligner).extend_gap_score = -5

(***************************************************************************)
(* C8: the constructor takes the matrix from exactly one source.  A matrix *)
(* given explicitly is used as given and no file is read; otherwise the    *)
(* file at matrix_file is read once, by the fallback parser if and only if *)
(* the native loader is unavailable; with neither, RuntimeError is raised  *)
(* and no engine is ever configured.                                       *)
(***************************************************************************)
C8_OneMatrixSource ==
  (al_pc \in {"configure", "constructed", "raised"}) =>
    LET a == Get(al_args)
    IN /\ (a.matrix # None) =>
            /\ al_reads = <<>>
            /\ al_error = None
            /\ al_matrix = a.matrix
            /\ (_aligner # None) => Get(_aligner).substitution_matrix = Get(a.matrix)
       /\ (a.matrix = None /\ Truthy(a.matrix_file)) =>
            /\ Len(al_reads) = 1
            /\ al_reads[1].path = Get(a.matrix_file)
            /\ (al_reads[1].loader = "substitution_matrix_loader")
                 <=> (substitution_matrices = "None")
            /\ (al_reads[1].loader = "substitution_matrices.read")
                 <=> (substitution_matrices # "None")
            /\ (_aligner # None) =>
                 Get(_aligner).substitution_matrix =
                   <<"loaded", al_reads[1].loader, Get(a.matrix_file)>>
       /\ (a.matrix = None /\ ~Truthy(a.matrix_file)) =>
            /\ al_pc = "raised"
            /\ al_error = Some([type |-> "RuntimeError"])
            /\ al_reads = <<>>
       /\ (al_error # None) => _aligner = None

\* the fallback parser loaded the file and the engine uses what it returned
C8_Witness ==
  /\ al_pc = "constructed"
  /\ Get(al_args).matrix = None
  /\ substitution_matrices = "None"
  /\ al_reads = <<[loader |-> "substitution_matrix_loader", path |-> "sub-matrix.txt"]>>
  /\ Get(_aligner).substitution_matrix = <<"loaded", "substitution_matrix_loader", "sub-matrix.txt">>

(***************************************************************************)
(* tests/run.py: test discovery.                                           *)
(*                                                                         *)
(* The module's top level runs from top to bottom.  Lines 1-73 bind the    *)
(* imports and constants and define make_argparser and main.  From line 74 *)
(* on, four markers  Globals... = globals().copy()  stand between the      *)
(* sections in which tests and helpers are written as def statements (or   *)
(* names are assigned other values).  main() then takes the differences of *)
(* consecutive snapshots.  The statements between the markers are the      *)
(* model's input: any def or assignment of the names below.                *)
(***************************************************************************)
MaxStmts == 3

Markers == <<"GlobalsInitial", "GlobalsAfterMeta", "GlobalsAfterActive", "GlobalsAfterInactive">>
MarkerNames == Range(Markers)

\* the names a section may bind: a function of lines 1-73, a test, a group's name
SectionNames == {"main", "getreads_smoke", "all"}

\* the namespace when line 74 is reached (tests/run.py:1-73)
GlobalsAtLine74 ==
  [n \in {"sys", "TESTS_DIR", "make_argparser", "main"} |->
     IF n \in {"make_argparser", "main"} THEN "function" ELSE "other"]

\* tests/run.py:255-260
get_objects_diff_NoTypeCheck(objects_before, objects_after) ==
  [name \in {n \in DOMAIN objects_after : n \notin DOMAIN objects_before} |-> objects_after[name]]
get_objects_diff(objects_before, objects_after) ==
  [name \in {n \in DOMAIN objects_after :
               n \notin DOMAIN objects_before /\ objects_after[n] = "function"}
     |-> objects_after[name]]

\* tests/run.py:242-247, for two dicts: the later dict's items overwrite the earlier's
add_dicts(d1, d2) ==
  [key \in (DOMAIN d1) \cup (DOMAIN d2) |-> IF key \in DOMAIN d2 THEN d2[key] ELSE d1[key]]

MarkersDone == Cardinality(DOMAIN snapshots)
StmtsDone == Len(module_src) - MarkersDone

InitDiscover ==
  /\ HarnessOff
  /\ LoaderOff
  /\ AlignerOff
  /\ CommandOff
  /\ dc_pc = "module"
  /\ module_src = <<>>
  /\ globals = GlobalsAtLine74
  /\ snapshots = EmptyDict
  /\ meta_tests = EmptyDict
  /\ active_tests = EmptyDict
  /\ inactive_tests = EmptyDict
  /\ simple_tests = EmptyDict
  /\ all_tests = EmptyDict

\* a module-level  def name(...):  statement
ExecDef ==
  /\ dc_pc = "module"
  /\ StmtsDone < MaxStmts
  /\ \E name \in SectionNames :
       /\ globals' = Put(globals, name, "function")
       /\ module_src' = Append(module_src, <<"def", name>>)
  /\ UNCHANGED <<dc_pc, snapshots, meta_tests, active_tests, inactive_tests,
                 simple_tests, all_tests>>
  /\ UNCHANGED <<ldVars, alVars, cmVars, hsVars>>

\* a module-level  name = <something that is no function>  statement
ExecAssign ==
  /\ dc_pc = "module"
  /\ StmtsDone < MaxStmts
  /\ \E name \in SectionNames :
       /\ globals' = Put(globals, name, "other")
       /\ module_src' = Append(module_src, <<"assign", name>>)
  /\ UNCHANGED <<dc_pc, snapshots, meta_tests, active_tests, inactive_tests,
                 simple_tests, all_tests>>
  /\ UNCHANGED <<ldVars, alVars, cmVars, hsVars>>

\* tests/run.py:74, 79, 231, 236   GlobalsX = globals().copy()
ExecMarker ==
  /\ dc_pc = "module"
  /\ MarkersDone < Len(Markers)
  /\ LET name == Markers[MarkersDone + 1]
     IN /\ snapshots' = Put(snapshots, name, globals)
        /\ globals' = Put(globals, name, "other")
        /\ module_src' = Append(module_src, <<"marker", name>>)
  /\ UNCHANGED <<dc_pc, meta_tests, active_tests, inactive_tests, simple_tests, all_tests>>
  /\ UNCHANGED <<ldVars, alVars, cmVars, hsVars>>

\* tests/run.py:40, once the module has run to its end and main() is called
MainLine40 ==
  /\ dc_pc = "module"
  /\ MarkersDone = Len(Markers)
  /\ meta_tests' = get_objects_diff(snapshots["GlobalsInitial"], snapshots["GlobalsAfterMeta"])
  /\ dc_pc' = "line41"
  /\ UNCHANGED <<module_src, globals, snapshots, active_tests, inactive_tests,
                 simple_tests, all_tests>>
  /\ UNCHANGED <<ldVars, alVars, cmVars, hsVars>>

\* tests/run.py:41-43
GroupNames == {"all", "active", "inactive"}
MainLines41To43 ==
  /\ dc_pc = "line41"
  /\ meta_tests' = Put(Put(Put(meta_tests, "all", "function"),
                           "active", "function"), "inactive", "function")
  /\ dc_pc' = "line45"
  /\ UNCHANGED <<module_src, globals, snapshots, active_tests, inactive_tests,
                 simple_tests, all_tests>>
  /\ UNCHANGED <<ldVars, alVars, cmVars, hsVars>>

\* tests/run.py:45-49
MainLines45To49 ==
  /\ dc_pc = "line45"
  /\ LET active == get_objects_diff(snapshots["GlobalsAfterMeta"], snapshots["GlobalsAfterActive"])
         inactive == get_objects_diff(snapshots["GlobalsAfterActive"],
                                      snapshots["GlobalsAfterInactive"])
         simple == add_dicts(active, inactive)
     IN /\ active_tests' = active
        /\ inactive_tests' = inactive
        /\ simple_tests' = simple
        /\ all_tests' = add_dicts(meta_tests, simple)
  /\ dc_pc' = "discovered"
  /\ UNCHANGED <<module_src, globals, snapshots, meta_tests>>
  /\ UNCHANGED <<ldVars, alVars, cmVars, hsVars>>

NextDiscover ==
  \/ ExecDef
  \/ ExecAssign
  \/ ExecMarker
  \/ MainLine40
  \/ MainLines41To43
  \/ MainLines45To49

SpecDiscover == InitDiscover /\ [][NextDiscover]_vars

(***************************************************************************)
(* What the module's text says, read off the statements alone.             *)
(***************************************************************************)
\* the position of a marker in the module
SrcMarkerAt(name) == CHOOSE i \in 1..Len(module_src) : module_src[i] = <<"marker", name>>
\* the statements binding `name` before position i (0: bound by lines 1-73)
SrcBindingsBefore(name, i) ==
  (IF name \in DOMAIN GlobalsAtLine74 THEN {0} ELSE {})
    \cup {j \in 1..(i - 1) : module_src[j][2] = name}
\* `name` is a module-level function first defined between the two markers
SrcDefinedBetween(name, opening, closing) ==
  LET bound == SrcBindingsBefore(name, SrcMarkerAt(closing))
  IN /\ SrcBindingsBefore(name, SrcMarkerAt(opening)) = {}
     /\ bound # {}
     /\ LET last == CHOOSE j \in bound : \A k \in bound : k <= j
        IN module_src[last][1] = "def"
SrcSuite(opening, closing) ==
  {name \in SectionNames \cup MarkerNames \cup DOMAIN GlobalsAtLine74 \cup GroupNames :
     SrcDefinedBetween(name, opening, closing)}
SrcMeta == SrcSuite("GlobalsInitial", "GlobalsAfterMeta")
SrcActive == SrcSuite("GlobalsAfterMeta", "GlobalsAfterActive")
SrcInactive == SrcSuite("GlobalsAfterActive", "GlobalsAfterInactive")
\* names bound only after the last marker
SrcHelpersOnly ==
  {name \in SectionNames :
     SrcBindingsBefore(name, SrcMarkerAt("GlobalsAfterInactive")) = {}}

(***************************************************************************)
(* C6 as stated: a name is registered in the meta, active or inactive      *)
(* suite exactly when it is a module-level function first defined between  *)
(* that suite's two markers.                                               *)
(***************************************************************************)
C6_RegisteredIffDefinedBetween ==
  (dc_pc = "discovered") =>
    /\ DOMAIN meta_tests = SrcMeta
    /\ DOMAIN active_tests = SrcActive
    /\ DOMAIN inactive_tests = SrcInactive

(***************************************************************************)
(* C6 amended: get_objects_diff(before, after) returns exactly the names   *)
(* present in after, absent from before and bound to a function, so a name *)
(* is registered in the active or inactive suite exactly when it is a      *)
(* module-level function first defined between that suite's two markers;   *)
(* the meta suite holds the functions first defined between its markers    *)
(* and, besides, always the three group names all, active and inactive     *)
(* that main() adds.  The three get_objects_diff results are pairwise      *)
(* disjoint, and neither the snapshot variables, nor make_argparser and    *)
(* main, nor functions defined after the last marker are registered as     *)
(* discovered tests.                                                       *)
(***************************************************************************)
C6_RegisteredIffDefinedBetweenOrGroup ==
  /\ (dc_pc \in {"line41", "line45", "discovered"}) =>
       /\ DOMAIN get_objects_diff(snapshots["GlobalsInitial"], snapshots["GlobalsAfterMeta"])
            = SrcMeta
       /\ DOMAIN get_objects_diff(snapshots["GlobalsAfterMeta"], snapshots["GlobalsAfterActive"])
            = SrcActive
       /\ DOMAIN get_objects_diff(snapshots["GlobalsAfterActive"],
                                  snapshots["GlobalsAfterInactive"]) = SrcInactive
  /\ (dc_pc = "line41") => DOMAIN meta_tests = SrcMeta
  /\ (dc_pc \in {"line45", "discovered"}) => DOMAIN meta_tests = SrcMeta \cup GroupNames
  /\ (dc_pc = "discovered") =>
       LET discovered == SrcMeta \cup DOMAIN active_tests \cup DOMAIN inactive_tests
       IN /\ DOMAIN active_tests = SrcActive
          /\ DOMAIN inactive_tests = SrcInactive
          /\ SrcMeta \cap DOMAIN active_tests = {}
          /\ SrcMeta \cap DOMAIN inactive_tests = {}
          /\ DOMAIN active_tests \cap DOMAIN inactive_tests = {}
          /\ discovered \cap MarkerNames = {}
          /\ discovered \cap {"make_argparser", "main"} = {}
          /\ discovered \cap SrcHelpersOnly = {}
          /\ DOMAIN all_tests = discovered \cup GroupNames

\* a test defined in the active section, a function redefined there that lines 1-73
\* had defined, and a helper defined after the last marker
C6_Witness ==
  /\ dc_pc = "discovered"
  /\ DOMAIN active_tests = {"getreads_smoke"}
  /\ \E i \in 1..Len(module_src) :
       /\ module_src[i] = <<"def", "main">>
       /\ SrcMarkerAt("GlobalsAfterMeta") < i /\ i < SrcMarkerAt("GlobalsAfterActive")
  /\ "all" \in SrcHelpersOnly
  /\ "all" \in DOMAIN globals
  /\ globals["all"] = "function"

(***************************************************************************)
(* tests/run.py: running a command (lines 271-300).                        *)
(*                                                                         *)
(* subprocess.run either fails to launch the command (OSError) or returns  *)
(* a CompletedProcess with an exit code and the bytes the process wrote.   *)
(* Bytes are modelled as "b:..." strings; "b:\\xff" is no valid UTF-8.     *)
(***************************************************************************)
ExitCodes == {0, 1}
StdoutBytes == {"b:expected", "b:other", "b:\\xff"}
StderrBytes == {"b:", "b:\\xff"}
OnErrors == {"warn", "stderr", "raise"}

LaunchFailure == [kind |-> "OSError"]
Completions == [kind : {"completed"}, returncode : ExitCodes,
                stdout : StdoutBytes, stderr : StderrBytes]

\* str(bytes, 'utf8'): the text, or None where decoding raises UnicodeDecodeError
Utf8(bytes) == CASE bytes = "b:expected" -> Some("expected")
                 [] bytes = "b:other" -> Some("other")
                 [] bytes = "b:" -> Some("")
                 [] bytes = "b:\\xff" -> None

\* how a call ends: the exception it raises or the value it returns, and what it logged
Raises(exc, logged) == [exc |-> Some(exc), value |-> None, logged |-> logged]
Returns(value, logged) == [exc |-> None, value |-> Some(value), logged |-> logged]

(***************************************************************************)
(* tests/run.py:290-300.  `proc` is what subprocess.run did.  When it      *)
(* raised OSError the local `result` was never assigned: unless the        *)
(* handler re-raises, the  return result  on line 300 reads an unbound     *)
(* local.                                                                  *)
(***************************************************************************)
run_command_and_catch(proc, onerror) ==
  IF proc.kind = "OSError"
    THEN CASE onerror = "stderr" -> Raises("UnboundLocalError", <<>>)               \* 294-295, 300
           [] onerror = "warn" -> Raises("UnboundLocalError", <<"Error: (OSError)">>)  \* 296-297, 300
           [] onerror = "raise" -> Raises("OSError", <<>>)                          \* 298-299
  ELSE Returns(proc, <<>>)

\* tests/run.py:271-278
run_command(proc, onerror) ==
  LET caught == run_command_and_catch(proc, onerror)
  IN IF caught.exc # None THEN caught
     ELSE LET result == Get(caught.value)
          IN IF onerror = "stderr" /\ result.returncode # 0
               THEN IF Utf8(result.stderr) = None
                      THEN Raises("UnicodeDecodeError", caught.logged)
                    ELSE Returns(result.returncode,
                                 Append(caught.logged, Get(Utf8(result.stderr))))
             ELSE Returns(result.returncode, caught.logged)

\* tests/run.py:281-287
run_command_and_capture(proc, onerror) ==
  LET caught == run_command_and_catch(proc, onerror)
  IN IF caught.exc # None THEN caught
     ELSE LET result == Get(caught.value)
              logs == result.returncode # 0 /\ onerror = "stderr"
          IN IF logs /\ Utf8(result.stderr) = None
               THEN Raises("UnicodeDecodeError", caught.logged)
             ELSE IF Utf8(result.stdout) = None
               THEN Raises("UnicodeDecodeError",
                           IF logs THEN Append(caught.logged, Get(Utf8(result.stderr)))
                           ELSE caught.logged)
             ELSE Returns(<<Get(Utf8(result.stdout)), result.returncode>>,
                          IF logs THEN Append(caught.logged, Get(Utf8(result.stderr)))
                          ELSE caught.logged)

CommandFns == {"run_command", "run_command_and_capture", "run_command_and_catch"}

CallFn(fn, proc, onerror) ==
  CASE fn = "run_command" -> run_command(proc, onerror)
    [] fn = "run_command_and_capture" -> run_command_and_capture(proc, onerror)
    [] fn = "run_command_and_catch" -> run_command_and_catch(proc, onerror)

InitCommand ==
  /\ HarnessOff
  /\ LoaderOff
  /\ AlignerOff
  /\ DiscoverOff
  /\ cm_pc = "idle"
  /\ cm_call = None
  /\ cm_proc = None
  /\ cm_ret = None

\* a caller calls one of the three functions
CallCommand ==
  /\ cm_pc = "idle"
  /\ \E fn \in CommandFns, onerror \in OnErrors :
       cm_call' = Some([fn |-> fn, onerror |-> onerror])
  /\ cm_pc' = "running"
  /\ UNCHANGED <<cm_proc, cm_ret>>
  /\ UNCHANGED <<ldVars, alVars, dcVars, hsVars>>

Finish(proc) ==
  LET ret == CallFn(Get(cm_call).fn, proc, Get(cm_call).onerror)
  IN /\ cm_proc' = Some(proc)
     /\ cm_ret' = Some(ret)
     /\ cm_pc' = IF ret.exc # None THEN "raised" ELSE "returned"
     /\ UNCHANGED cm_call
     /\ UNCHANGED <<ldVars, alVars, dcVars, hsVars>>

\* subprocess.run raises OSError: no such script, or not executable
LaunchFails ==
  /\ cm_pc = "running"
  /\ Finish(LaunchFailure)

\* subprocess.run returns a CompletedProcess
ProcessCompletes ==
  /\ cm_pc = "running"
  /\ \E proc \in Completions : Finish(proc)

NextCommand == CallCommand \/ LaunchFails \/ ProcessCompletes

SpecCommand == InitCommand /\ [][NextCommand]_vars

(***************************************************************************)
(* C10 as stated: when launching the subprocess fails with OSError, the    *)
(* error is re-raised only for onerror='raise'; for 'warn' (logging the    *)
(* error) and 'stderr' (silently) it is swallowed and the function returns *)
(* normally, so that run_command and run_command_and_capture do not raise. *)
(***************************************************************************)
C10_LaunchFailureSwallowed ==
  (cm_ret # None /\ Get(cm_proc).kind = "OSError") =>
    LET call == Get(cm_call)
        ret == Get(cm_ret)
    IN /\ (call.onerror = "raise") => ret.exc = Some("OSError")
       /\ (call.onerror \in {"warn", "stderr"}) => ret.exc = None
       /\ (call.onerror = "warn") => ret.logged # <<>>
       /\ (call.onerror = "stderr") => ret.logged = <<>>

(***************************************************************************)
(* tests/run.py: main() running the tests.                                 *)
(*                                                                         *)
(* The suites are those the module's text gives: no meta test beyond the   *)
(* three groups, four active tests in the order of their definition, no    *)
(* inactive test.                                                          *)
(***************************************************************************)
MaxArgs == 2

MetaTestNames == <<"all", "active", "inactive">>            \* lines 40-43
ActiveTestNames == <<"getreads_smoke", "parse_test_align", "get_context", "trimmer">>
InactiveTestNames == <<>>                                   \* lines 234-236
SimpleTestNames == ActiveTestNames \o InactiveTestNames     \* line 47
AllTestNames == Range(MetaTestNames) \cup Range(SimpleTestNames)   \* line 49

\* the names a command line may hold: the registered ones and two that are not
ArgNames == AllTestNames \cup {"bogus", "nosuch"}

\* the tests that diff a script's stdout against a golden file
DiffTests == {"getreads_smoke", "get_context"}

\* the number of subtests of each test: len(test_pairs) (lines 87-93), len(subtests)
\* (112-131), len(test_data) (167-169, 194-203)
NSubtests(test) == CASE test = "getreads_smoke" -> 5
                     [] test = "parse_test_align" -> 2
                     [] test = "get_context" -> 1
                     [] test = "trimmer" -> 1

\* tests/run.py:41-43, 72: the tests a call test_fxn(test_name) runs, in order
TestsOf(name) ==
  CASE name = "all" -> SimpleTestNames
    [] name = "active" -> ActiveTestNames
    [] name = "inactive" -> InactiveTestNames
    [] OTHER -> <<name>>

\* tests/run.py:63-66
unknown_tests == SelectSeq(tests, LAMBDA n : n \notin AllTestNames)

\* tests/run.py:303-309: the file's text, or None when opening or reading it fails
ReadFileResults == {Some("expected"), None}

InitHarness ==
  /\ LoaderOff
  /\ AlignerOff
  /\ DiscoverOff
  /\ CommandOff
  /\ hs_pc = "main"
  /\ tests \in SeqsUpTo(ArgNames, MaxArgs)
  /\ arg_i = 0
  /\ pending = <<>>
  /\ cur_test = None
  /\ sub_i = 0
  /\ sub = None
  /\ called = <<>>
  /\ ran = <<>>
  /\ listing = None
  /\ hs_log = <<>>
  /\ hs_end = None

HsOthers == <<ldVars, alVars, dcVars, cmVars>>

\* tests/run.py:51-61
ListSuites ==
  /\ hs_pc = "main"
  /\ tests = <<>>
  /\ listing' = Some([meta |-> MetaTestNames, active |-> ActiveTestNames,
                      inactive |-> InactiveTestNames])
  /\ hs_end' = Some([how |-> "return", value |-> "1"])
  /\ hs_pc' = "returned"
  /\ UNCHANGED <<tests, arg_i, pending, cur_test, sub_i, sub, called, ran, hs_log>>
  /\ UNCHANGED HsOthers

\* tests/run.py:63-68 and fail (334-339): sys.exit(1) when run as a script, an
\* exception when the module was imported
FailUnknown ==
  /\ hs_pc = "main"
  /\ tests # <<>>
  /\ unknown_tests # <<>>
  /\ hs_log' = Append(hs_log, [level |-> "critical", unrecognized |-> unknown_tests])
  /\ \/ /\ hs_pc' = "exited"
        /\ hs_end' = Some([how |-> "exit", value |-> "1"])
     \/ /\ hs_pc' = "raised"
        /\ hs_end' = Some([how |-> "raise", value |-> "Exception"])
  /\ UNCHANGED <<tests, arg_i, pending, cur_test, sub_i, sub, called, ran, listing>>
  /\ UNCHANGED HsOthers

\* tests/run.py:51, 63-67: there are names and all are known
EnterLoop ==
  /\ hs_pc = "main"
  /\ tests # <<>>
  /\ unknown_tests = <<>>
  /\ hs_pc' = "loop"
  /\ UNCHANGED <<tests, arg_i, pending, cur_test, sub_i, sub, called, ran, listing,
                 hs_log, hs_end>>
  /\ UNCHANGED HsOthers

\* tests/run.py:70-72
CallTest ==
  /\ hs_pc = "loop"
  /\ arg_i < Len(tests)
  /\ arg_i' = arg_i + 1
  /\ ran' = Append(ran, tests[arg_i + 1])
  /\ pending' = TestsOf(tests[arg_i + 1])
  /\ hs_pc' = "group"
  /\ UNCHANGED <<tests, cur_test, sub_i, sub, called, listing, hs_log, hs_end>>
  /\ UNCHANGED HsOthers

\* a test function is entered: directly (line 72) or by run_test_group (250-252)
EnterTest ==
  /\ hs_pc = "group"
  /\ pending # <<>>
  /\ cur_test' = Some(Head(pending))
  /\ pending' = Tail(pending)
  /\ called' = Append(called, Head(pending))
  /\ sub_i' = 0
  /\ sub' = None
  /\ hs_pc' = "test"
  /\ UNCHANGED <<tests, arg_i, ran, listing, hs_log, hs_end>>
  /\ UNCHANGED HsOthers

\* the call on line 72 returns
CallReturns ==
  /\ hs_pc = "group"
  /\ pending = <<>>
  /\ hs_pc' = "loop"
  /\ UNCHANGED <<tests, arg_i, pending, cur_test, sub_i, sub, called, ran, listing,
                 hs_log, hs_end>>
  /\ UNCHANGED HsOthers

\* main() falls off its end
MainReturns ==
  /\ hs_pc = "loop"
  /\ arg_i = Len(tests)
  /\ hs_pc' = "returned"
  /\ hs_end' = Some([how |-> "return", value |-> "None"])
  /\ UNCHANGED <<tests, arg_i, pending, cur_test, sub_i, sub, called, ran, listing, hs_log>>
  /\ UNCHANGED HsOthers

\* an exception leaves the test, run_test_group and main()
Propagate(exc) ==
  /\ hs_pc' = "raised"
  /\ hs_end' = Some([how |-> "raise", value |-> exc])

Subtest(test, idx, proc, ret) ==
  [test |-> test, idx |-> idx, proc |-> proc, ret |-> ret, golden_read |-> FALSE,
   expected |-> None, verdicts |-> <<>>, judged |-> FALSE]

CanStartSubtest ==
  /\ hs_pc = "test"
  /\ sub_i < NSubtests(Get(cur_test))
  /\ IF sub = None THEN TRUE ELSE Get(sub).judged

\* tests/run.py:95-96, 173-178: the subtest's line is started and the script is run
RunScript ==
  /\ CanStartSubtest
  /\ Get(cur_test) \in DiffTests
  /\ \E proc \in {LaunchFailure} \cup Completions :
       LET ret == run_command_and_capture(proc, "stderr")
       IN /\ sub' = Some(Subtest(Get(cur_test), sub_i + 1, proc, ret))
          /\ IF ret.exc # None
               THEN Propagate(Get(ret.exc))
             ELSE UNCHANGED <<hs_pc, hs_end>>
  /\ UNCHANGED <<tests, arg_i, pending, cur_test, sub_i, called, ran, listing, hs_log>>
  /\ UNCHANGED HsOthers

(***************************************************************************)
(* tests/run.py:97-106, 179-188.  `expected` is what read_file returned.   *)
(* When it is None, result != expected holds, FAILED is printed and the    *)
(* argument expected.splitlines() of trimmed_diff raises AttributeError.   *)
(***************************************************************************)
Judge(s, expected) ==
  LET result == Get(s.ret.value)[1]
      exit_code == Get(s.ret.value)[2]
  IN IF exit_code # 0
       THEN [verdicts |-> <<"FAILED">>, exc |-> None, golden_read |-> FALSE]
     ELSE IF Some(result) # expected
       THEN [verdicts |-> <<"FAILED">>,
             exc |-> IF expected = None THEN Some("AttributeError") ELSE None,
             golden_read |-> TRUE]
     ELSE [verdicts |-> <<"success">>, exc |-> None, golden_read |-> TRUE]

JudgeSubtest ==
  /\ hs_pc = "test"
  /\ sub # None
  /\ ~Get(sub).judged
  /\ Get(sub).test \in DiffTests
  /\ \E expected \in ReadFileResults :
       LET j == Judge(Get(sub), expected)
       IN /\ sub' = Some([Get(sub) EXCEPT !.verdicts = j.verdicts,
                                          !.golden_read = j.golden_read,
                                          !.expected = IF j.golden_read THEN expected ELSE None,
                                          !.judged = TRUE])
          /\ IF j.exc # None
               THEN Propagate(Get(j.exc)) /\ UNCHANGED sub_i
             ELSE sub_i' = sub_i + 1 /\ UNCHANGED <<hs_pc, hs_end>>
  /\ UNCHANGED <<tests, arg_i, pending, cur_test, called, ran, listing, hs_log>>
  /\ UNCHANGED HsOthers

(***************************************************************************)
(* A subtest of parse_test_align (lines 132-161) or trimmer (204-228), in  *)
(* one step.  `outputs` is what the comparison of the output files finds.  *)
(*   parse_test_align: a missing output file is logged and counts as no    *)
(*     failure; "nodiff" is the diff command failing to launch, which      *)
(*     run_command_and_capture turns into an exception.                    *)
(*   trimmer: a file read_file could not read is None, and None has no     *)
(*     splitlines; cleanup (line 228) raises when an output file is not    *)
(*     there to remove.                                                    *)
(***************************************************************************)
OutputStates == {"same", "differ", "missing", "nodiff"}

FileSubtestOutcome(test, proc, outputs, cleanup_ok) ==
  LET ret == run_command(proc, "stderr")
  IN IF ret.exc # None THEN [verdicts |-> <<>>, exc |-> ret.exc]
     ELSE IF test = "parse_test_align"
       THEN IF Get(ret.value) # 0 THEN [verdicts |-> <<"FAILED">>, exc |-> None]
            ELSE CASE outputs = "same" -> [verdicts |-> <<"success">>, exc |-> None]
                   [] outputs = "missing" -> [verdicts |-> <<"success">>, exc |-> None]
                   [] outputs = "differ" -> [verdicts |-> <<"FAILED">>, exc |-> None]
                   [] outputs = "nodiff" ->
                        [verdicts |-> <<>>, exc |-> Some("UnboundLocalError")]
     ELSE LET cleanup == IF cleanup_ok THEN None ELSE Some("FileNotFoundError")
          IN IF Get(ret.value) # 0 THEN [verdicts |-> <<"FAILED">>, exc |-> cleanup]
             ELSE CASE outputs = "same" -> [verdicts |-> <<"success">>, exc |-> cleanup]
                    [] outputs = "differ" -> [verdicts |-> <<"FAILED">>, exc |-> cleanup]
                    [] outputs \in {"missing", "nodiff"} ->
                         [verdicts |-> <<>>, exc |-> Some("AttributeError")]

FileSubtest ==
  /\ CanStartSubtest
  /\ Get(cur_test) \notin DiffTests
  /\ \E proc \in {LaunchFailure} \cup Completions, outputs \in OutputStates,
        cleanup_ok \in BOOLEAN :
       LET o == FileSubtestOutcome(Get(cur_test), proc, outputs, cleanup_ok)
       IN /\ sub' = Some([Subtest(Get(cur_test), sub_i + 1, proc, run_command(proc, "stderr"))
                            EXCEPT !.verdicts = o.verdicts, !.judged = TRUE])
          /\ IF o.exc # None
               THEN Propagate(Get(o.exc)) /\ UNCHANGED sub_i
             ELSE sub_i' = sub_i + 1 /\ UNCHANGED <<hs_pc, hs_end>>
  /\ UNCHANGED <<tests, arg_i, pending, cur_test, called, ran, listing, hs_log>>
  /\ UNCHANGED HsOthers

\* the test function's loop is over
TestReturns ==
  /\ hs_pc = "test"
  /\ sub_i = NSubtests(Get(cur_test))
  /\ cur_test' = None
  /\ hs_pc' = "group"
  /\ UNCHANGED <<tests, arg_i, pending, sub_i, sub, called, ran, listing, hs_log, hs_end>>
  /\ UNCHANGED HsOthers

NextHarness ==
  \/ ListSuites
  \/ FailUnknown
  \/ EnterLoop
  \/ CallTest
  \/ EnterTest
  \/ CallReturns
  \/ MainReturns
  \/ RunScript
  \/ JudgeSubtest
  \/ FileSubtest
  \/ TestReturns

SpecHarness == InitHarness /\ [][NextHarness]_vars

MainEnded == hs_pc \in {"returned", "exited", "raised"}

(***************************************************************************)
(* C7 as stated, for the subtests whose script was launched and whose      *)
(* output could be decoded: the harness prints exactly one verdict, which  *)
(* is 'success' if and only if the script exited with 0 and its stdout     *)
(* equals the golden file's text; in every other case (non-zero exit,      *)
(* differing output, unreadable golden file) it prints 'FAILED' and goes   *)
(* on without raising.                                                     *)
(***************************************************************************)
C7_OneVerdictPerSubtest ==
  (/\ sub # None
   /\ Get(sub).test \in DiffTests
   /\ Get(sub).ret.exc = None
   /\ Get(sub).judged) =>
    LET s == Get(sub)
        result == Get(s.ret.value)[1]
        exit_code == Get(s.ret.value)[2]
        matches == exit_code = 0 /\ s.expected = Some(result)
    IN /\ Len(s.verdicts) = 1
       /\ s.verdicts[1] = IF matches THEN "success" ELSE "FAILED"
       /\ hs_pc # "raised"

(***************************************************************************)
(* C9 as stated: a test function is executed only when at least one name   *)
(* was given and every given name is registered; with no names main only   *)
(* lists the suites and returns 1; with an unrecognized name it fails      *)
(* naming all the unrecognized names before any test has run; and when all *)
(* names are recognized the tests run once each per occurrence, in         *)
(* command-line order.                                                     *)
(***************************************************************************)
C9_ValidateThenRunInOrder ==
  /\ (called # <<>> \/ ran # <<>>) => (tests # <<>> /\ Range(tests) \subseteq AllTestNames)
  /\ (MainEnded /\ tests = <<>>) =>
       /\ listing # None
       /\ hs_end = Some([how |-> "return", value |-> "1"])
       /\ called = <<>>
  /\ (MainEnded /\ unknown_tests # <<>>) =>
       /\ hs_pc \in {"exited", "raised"}
       /\ hs_log = <<[level |-> "critical", unrecognized |-> unknown_tests]>>
       /\ called = <<>>
       /\ listing = None
  /\ (MainEnded /\ tests # <<>> /\ unknown_tests = <<>>) => ran = tests

====
